---- MODULE Spec2Model ----
(***************************************************************************)
(* The two documentation-build hooks of docs/hooks:                        *)
(*   remove-must-fail.py  deletes every ",must-fail" from a page           *)
(*   shortcodes.py        turns <sup>Until|Since: V</sup> into a badge     *)
(* Page text is a TLA+ string; a character is a string of length 1.        *)
(* Both hooks are a single re.sub call, modelled by the scan re.sub does:  *)
(* search the leftmost match from the current position, keep the text in   *)
(* front of it, emit the replacement and go on behind the match.           *)
(* The alphabet is ASCII. Under re.I Python also lets the non-ASCII        *)
(* letters U+017F, U+0130, U+0131 match "s" and "i"; they are outside the  *)
(* texts the model draws.                                                  *)
(***************************************************************************)
EXTENDS Integers, Sequences, FiniteSets, TLC

VARIABLES docs

vars == <<docs>>

(* ------------------------------------------------------------------ *)
(* Bounds                                                              *)
(* ------------------------------------------------------------------ *)

\* fragments a page text is put together from
MaxFrags == 3

\* fragments a page of the stripper's vocabulary is put together from
MaxStripFrags == 4

\* hook invocations on one page
MaxCalls == 2

(* ------------------------------------------------------------------ *)
(* Characters and the IGNORECASE comparison                            *)
(* ------------------------------------------------------------------ *)

UpperLetters == "ABCDEFGHIJKLMNOPQRSTUVWXYZ"

LowerLetters == "abcdefghijklmnopqrstuvwxyz"

CharAt(s, i) == SubSeq(s, i, i)

\* re.I: a character of the text is compared by its lower-case form
ToLower ==
  [c \in {CharAt(UpperLetters, k) : k \in 1..26} |->
     CharAt(LowerLetters, CHOOSE k \in 1..26 : CharAt(UpperLetters, k) = c)]

Lower(c) == IF c \in DOMAIN ToLower THEN ToLower[c] ELSE c

\* a literal of the pattern matches the text at position i, ignoring case
MatchLiteralAt(lit, s, i) ==
  /\ i >= 1
  /\ i + Len(lit) - 1 <= Len(s)
  /\ \A k \in 1..Len(lit) : Lower(CharAt(s, i + k - 1)) = Lower(CharAt(lit, k))

(* ------------------------------------------------------------------ *)
(* remove-must-fail.py                                                 *)
(* ------------------------------------------------------------------ *)

MustFailPattern == ",must-fail"

\* the smallest of a non-empty set of positions, 0 for the empty set
First(S) == IF S = {} THEN 0 ELSE CHOOSE j \in S : \A k \in S : j <= k

\* where the scan of re.sub, started at position i, finds its next match
MustFailSearch(s, i) ==
  First({j \in i..Len(s) : MatchLiteralAt(MustFailPattern, s, j)})

\* re.sub(r",must-fail", '', markdown, flags = re.I | re.M), from position i:
\* the text up to the next match is kept, the match is replaced by '' and the
\* scan goes on behind it
RECURSIVE StripFrom(_, _)
StripFrom(s, i) ==
  LET j == MustFailSearch(s, i)
  IN  IF j = 0 THEN SubSeq(s, i, Len(s))
      ELSE SubSeq(s, i, j - 1) \o StripFrom(s, j + Len(MustFailPattern))

\* Variants of the call with one thing wrong, for the properties to tell
\* apart from the call as written: another pattern, no re.I, a count.
LiteralAt(lit, s, i, ignorecase) ==
  IF ignorecase THEN MatchLiteralAt(lit, s, i)
  ELSE i >= 1 /\ i + Len(lit) - 1 <= Len(s) /\ SubSeq(s, i, i + Len(lit) - 1) = lit

RECURSIVE SubLiteral(_, _, _, _, _)
SubLiteral(lit, s, i, ignorecase, count) ==
  LET j == First({k \in i..Len(s) : LiteralAt(lit, s, k, ignorecase)})
  IN  IF j = 0 \/ count = 0 THEN SubSeq(s, i, Len(s))
      ELSE SubSeq(s, i, j - 1) \o SubLiteral(lit, s, j + Len(lit), ignorecase, count - 1)

\* flags = re.M only
remove_must_fail_case_sensitive(markdown, page, config, files) ==
  SubLiteral(MustFailPattern, markdown, 1, FALSE, -1)

\* count = 1
remove_must_fail_first_only(markdown, page, config, files) ==
  SubLiteral(MustFailPattern, markdown, 1, TRUE, 1)

\* the pattern cut short, r",must"
remove_must_fail_short_pattern(markdown, page, config, files) ==
  SubLiteral(",must", markdown, 1, TRUE, -1)

\* the hook doing its work on one page of the site only
remove_must_fail_index_only(markdown, page, config, files) ==
  IF page = "index.md" THEN StripFrom(markdown, 1) ELSE markdown

remove_must_fail_on_page_markdown(markdown, page, config, files) ==
  StripFrom(markdown, 1)

(* ------------------------------------------------------------------ *)
(* shortcodes.py                                                       *)
(* ------------------------------------------------------------------ *)

NextRelease == "next release"

ReleasePath == "https://github.com/YaLTeR/niri/releases/tag/v"

\* the sentinel compared without regard to letter case
_badge_for_version_ignoring_case(preposition, version) ==
  IF Len(version) = Len(NextRelease) /\ MatchLiteralAt(NextRelease, version, 1)
  THEN "<span class=\"badge\">" \o preposition \o ": " \o version \o "</span>"
  ELSE "<span class=\"badge\">[" \o preposition \o ": " \o version \o "]("
         \o ReleasePath \o version \o ")</span>"

_badge_for_version(preposition, version) ==
  IF version = NextRelease
  THEN "<span class=\"badge\">" \o preposition \o ": " \o version \o "</span>"
  ELSE "<span class=\"badge\">[" \o preposition \o ": " \o version \o "]("
         \o ReleasePath \o version \o ")</span>"

SupOpen == "<sup>"

SupClose == "</sup>"

\* (Until|Since) at position i
PrepositionAt(s, i) ==
  MatchLiteralAt("Until", s, i) \/ MatchLiteralAt("Since", s, i)

\* (.*?)</sup> from position e: the lazy star stops at the first place the
\* closing tag matches, and "." (no re.S) takes no newline on the way there.
\* The position of the closing tag, or 0 when there is no match.
LazyClose(s, e) ==
  First({c \in e..Len(s) :
           /\ MatchLiteralAt(SupClose, s, c)
           /\ \A k \in e..(c - 1) : CharAt(s, k) # "\n"})

\* <sup>(Until|Since): (.*?)</sup> at position i: the match object, its two
\* groups and the position behind the match
BadgeMatchAt(s, i) ==
  LET close == LazyClose(s, i + 12)
  IN  IF /\ MatchLiteralAt(SupOpen, s, i)
         /\ PrepositionAt(s, i + 5)
         /\ MatchLiteralAt(": ", s, i + 10)
         /\ close > 0
      THEN [ok |-> TRUE,
            groups |-> <<SubSeq(s, i + 5, i + 9), SubSeq(s, i + 12, close - 1)>>,
            end |-> close + Len(SupClose)]
      ELSE [ok |-> FALSE, groups |-> <<"", "">>, end |-> i]

\* the callback given to re.sub
replace(match) ==
  _badge_for_version(match.groups[1], match.groups[2])

\* where the scan of re.sub, started at position i, finds its next match
BadgeSearch(s, i) ==
  First({j \in i..Len(s) : BadgeMatchAt(s, j).ok})

\* re.sub(r"<sup>(Until|Since): (.*?)</sup>", replace, markdown, ...), from i
RECURSIVE BadgeFrom(_, _)
BadgeFrom(s, i) ==
  LET j == BadgeSearch(s, i)
      match == BadgeMatchAt(s, j)
  IN  IF j = 0 THEN SubSeq(s, i, Len(s))
      ELSE SubSeq(s, i, j - 1) \o replace(match) \o BadgeFrom(s, match.end)

\* Variants of the call with one thing wrong in the pattern or the flags:
\* no re.I, (.*) for (.*?), re.S added, (.+?) for (.*?).
Last(S) == IF S = {} THEN 0 ELSE CHOOSE j \in S : \A k \in S : j >= k

VariantClose(s, e, o) ==
  LET closes == {c \in (e + o.least)..Len(s) :
                   /\ LiteralAt(SupClose, s, c, o.ignorecase)
                   /\ o.dotall \/ \A k \in e..(c - 1) : CharAt(s, k) # "\n"}
  IN  IF o.greedy THEN Last(closes) ELSE First(closes)

VariantMatchAt(s, i, o) ==
  LET close == VariantClose(s, i + 12, o)
  IN  IF /\ LiteralAt(SupOpen, s, i, o.ignorecase)
         /\ LiteralAt("Until", s, i + 5, o.ignorecase)
              \/ LiteralAt("Since", s, i + 5, o.ignorecase)
         /\ LiteralAt(": ", s, i + 10, o.ignorecase)
         /\ close > 0
      THEN [ok |-> TRUE,
            groups |-> <<SubSeq(s, i + 5, i + 9), SubSeq(s, i + 12, close - 1)>>,
            end |-> close + Len(SupClose)]
      ELSE [ok |-> FALSE, groups |-> <<"", "">>, end |-> i]

RECURSIVE VariantFrom(_, _, _)
VariantFrom(s, i, o) ==
  LET j == First({k \in i..Len(s) : VariantMatchAt(s, k, o).ok})
      match == VariantMatchAt(s, j, o)
  IN  IF j = 0 THEN SubSeq(s, i, Len(s))
      ELSE SubSeq(s, i, j - 1) \o replace(match) \o VariantFrom(s, match.end, o)

AsWritten == [ignorecase |-> TRUE, greedy |-> FALSE, dotall |-> FALSE, least |-> 0]

shortcodes_case_sensitive(markdown, page, config, files) ==
  VariantFrom(markdown, 1, [AsWritten EXCEPT !.ignorecase = FALSE])

shortcodes_greedy(markdown, page, config, files) ==
  VariantFrom(markdown, 1, [AsWritten EXCEPT !.greedy = TRUE])

shortcodes_dotall(markdown, page, config, files) ==
  VariantFrom(markdown, 1, [AsWritten EXCEPT !.dotall = TRUE])

shortcodes_nonempty_version(markdown, page, config, files) ==
  VariantFrom(markdown, 1, [AsWritten EXCEPT !.least = 1])

shortcodes_on_page_markdown(markdown, page, config, files) ==
  BadgeFrom(markdown, 1)

(* ------------------------------------------------------------------ *)
(* The build pipeline: pages and the hooks it calls on them            *)
(* ------------------------------------------------------------------ *)

HookStrip == "remove-must-fail"

HookBadge == "shortcodes"

\* the opaque arguments the pipeline passes along with the text
Pages == {"index.md", "Configuration.md"}

Configs == {"mkdocs.yml", "mkdocs.insiders.yml"}

FileSets == {"docs", "wiki"}

\* the page texts put together from at most n fragments
RECURSIVE Texts(_, _)
Texts(frags, n) ==
  IF n = 0 THEN {""}
  ELSE Texts(frags, n - 1) \cup {t \o f : t \in Texts(frags, n - 1), f \in frags}

\* a page as the pipeline holds it: its text, and the arguments it passes to
\* every hook. hooks and trail record the calls made so far: hooks[k] is the
\* k-th hook called and trail[k] the text it was given.
NewDoc(text, page, config, files) ==
  [markdown |-> text, page |-> page, config |-> config, files |-> files,
   hooks |-> <<>>, trail |-> <<>>]

\* the pipeline calls hook h on page d: the page's text is replaced by what
\* the hook returns
Called(d, h, result) ==
  [d EXCEPT !.markdown = result,
            !.hooks = Append(@, h),
            !.trail = Append(@, d.markdown)]

RemoveMustFail(i) ==
  /\ Len(docs[i].hooks) < MaxCalls
  /\ docs' = [docs EXCEPT ![i] =
       Called(@, HookStrip,
              remove_must_fail_on_page_markdown(@.markdown, @.page, @.config, @.files))]

Shortcodes(i) ==
  /\ Len(docs[i].hooks) < MaxCalls
  /\ docs' = [docs EXCEPT ![i] =
       Called(@, HookBadge,
              shortcodes_on_page_markdown(@.markdown, @.page, @.config, @.files))]

Next ==
  \/ \E i \in DOMAIN docs : RemoveMustFail(i)
  \/ \E i \in DOMAIN docs : Shortcodes(i)

\* pages holding both kinds of annotation, whole and in pieces
MixedFrags ==
  {",must-fail", ",must", "-fail", "<sup>Since: next", " release</sup>",
   "<su", "p>Until: 0.1.0</sup>", "\n"}

\* pages with the language line of a fenced code block and its annotation
StripFrags ==
  {",must-fail", ",Must-FAIL", ",must", "-fail", "python", "\ncode\n"}

\* pages with version annotations
BadgeFrags ==
  {"<sup>Since: 0.1.0</sup>", "<SUP>until: next release</SUP>",
   "<sup>Since: ", "</sup>", "next release", "Next Release", "\n"}

\* the pages of a build in which two pages are in flight
PageSources ==
  {"rust,must-fail\n", "<sup>Since: 0.1.0</sup>", "<sup>Until: next release</sup>,MUST-FAIL"}

OnePage(frags, n) ==
  \E t \in Texts(frags, n) :
    docs = <<NewDoc(t, "index.md", "mkdocs.yml", "docs")>>

Init == OnePage(MixedFrags, MaxFrags)

InitStrip == OnePage(StripFrags, MaxStripFrags)

InitBadge == OnePage(BadgeFrags, MaxFrags)

\* two pages in flight; the second is passed any page, config and files
InitPages ==
  \E t1 \in PageSources, t2 \in PageSources :
    \E p \in Pages, c \in Configs, f \in FileSets :
      docs = <<NewDoc(t1, "index.md", "mkdocs.yml", "docs"), NewDoc(t2, p, c, f)>>

Spec == Init /\ [][Next]_vars

SpecStrip == InitStrip /\ [][Next]_vars

SpecBadge == InitBadge /\ [][Next]_vars

SpecPages == InitPages /\ [][Next]_vars

(* ------------------------------------------------------------------ *)
(* Reading the record of calls                                         *)
(* ------------------------------------------------------------------ *)

\* the pages whose latest call was hook h. Every call is the latest one in
\* the state it leads to, so a property of the latest calls in every
\* reachable state is a property of every call.
CallsOf(h) ==
  {i \in DOMAIN docs :
     /\ Len(docs[i].hooks) > 0
     /\ docs[i].hooks[Len(docs[i].hooks)] = h}

\* what the latest call on page i was given, and what it returned
Given(i) == docs[i].trail[Len(docs[i].trail)]

Result(i) == docs[i].markdown

\* the pages whose latest two calls were both hook h
CalledTwice(h) ==
  {i \in CallsOf(h) :
     /\ Len(docs[i].hooks) > 1
     /\ docs[i].hooks[Len(docs[i].hooks) - 1] = h}

\* the pages whose latest two calls were hook h and then hook g
CalledInTurn(h, g) ==
  {i \in CallsOf(g) :
     /\ Len(docs[i].hooks) > 1
     /\ docs[i].hooks[Len(docs[i].hooks) - 1] = h}

\* what the call before the latest one was given
GivenBefore(i) == docs[i].trail[Len(docs[i].trail) - 1]

(* ------------------------------------------------------------------ *)
(* The vocabulary of the properties                                    *)
(* ------------------------------------------------------------------ *)

\* two characters are the same letter in some letter case
LetterCases == {{CharAt(UpperLetters, k), CharAt(LowerLetters, k)} : k \in 1..26}

SameLetter(x, y) == x = y \/ {x, y} \in LetterCases

SameIgnoringCase(a, b) ==
  /\ Len(a) = Len(b)
  /\ \A k \in 1..Len(a) : SameLetter(CharAt(a, k), CharAt(b, k))

\* the 10-character token starts at position i of s
TokenAt(s, i) ==
  /\ i + 9 <= Len(s)
  /\ SameIgnoringCase(SubSeq(s, i, i + 9), ",must-fail")

Tokens(s) == {i \in 1..Len(s) : TokenAt(s, i)}

TokensDisjoint(s) ==
  \A i \in Tokens(s), j \in Tokens(s) : i < j => i + 10 <= j

\* s with the tokens starting at the positions toks cut out, read from position from
RECURSIVE CutOut(_, _, _)
CutOut(s, toks, from) ==
  IF toks = {} THEN SubSeq(s, from, Len(s))
  ELSE SubSeq(s, from, First(toks) - 1)
         \o CutOut(s, toks \ {First(toks)}, First(toks) + 10)

WithoutTokens(s) == CutOut(s, Tokens(s), 1)

\* a token of s stands directly behind the first n characters of another one
SplitToken(s) ==
  \E i \in Tokens(s), n \in 1..9 :
    /\ i - n >= 1
    /\ SameIgnoringCase(SubSeq(s, i - n, i - 1), SubSeq(",must-fail", 1, n))

(* ------------------------------------------------------------------ *)
(* C1                                                                  *)
(* ------------------------------------------------------------------ *)

\* C1: what AnnotationStripper returns is its input with every occurrence of
\* the token ",must-fail" (any letter case, any line) deleted and every other
\* character kept in order; the occurrences never overlap, so the leftmost
\* non-overlapping ones are all of them.
C1_StripDeletesEveryToken ==
  \A c \in CallsOf(HookStrip) :
    /\ TokensDisjoint(Given(c))
    /\ Result(c) = WithoutTokens(Given(c))

\* two tokens in different letter case deleted from a two-line text that
\* keeps the rest
C1_Witness ==
  \E c \in CallsOf(HookStrip) :
    /\ Cardinality(Tokens(Given(c))) >= 2
    /\ \E i \in Tokens(Given(c)) : SubSeq(Given(c), i, i + 9) # ",must-fail"
    /\ \E i \in Tokens(Given(c)) : SubSeq(Given(c), i, i + 9) = ",must-fail"
    /\ Result(c) = "python\ncode\n"

(* ------------------------------------------------------------------ *)
(* C8                                                                  *)
(* ------------------------------------------------------------------ *)

\* C8: a text without any occurrence of ",must-fail" in any letter case, the
\* empty text included, is returned by AnnotationStripper as it is.
C8_NoTokenNoChange ==
  \A c \in CallsOf(HookStrip) :
    (\A i \in 1..Len(Given(c)) : ~TokenAt(Given(c), i)) => Result(c) = Given(c)

\* the stripper was given a text that holds both halves of the token, but no
\* token, and returned it
C8_Witness ==
  \E c \in CallsOf(HookStrip) :
    /\ Given(c) = "python,must\ncode\n-fail"
    /\ Tokens(Given(c)) = {}
    /\ Result(c) = Given(c)

\* the empty page goes through the stripper unchanged
C8_WitnessEmpty ==
  \E c \in CallsOf(HookStrip) : Given(c) = "" /\ Result(c) = ""

(* ------------------------------------------------------------------ *)
(* C4                                                                  *)
(* ------------------------------------------------------------------ *)

\* C4 as stated: a second application of AnnotationStripper changes nothing,
\* for all texts.
C4_Original ==
  \A i \in CalledTwice(HookStrip) : Result(i) = Given(i)

\* C4, amended: a second application of AnnotationStripper changes nothing
\* when in the text first given no token stands directly behind a non-empty
\* proper prefix of the token (which its deletion would join with what follows).
C4_IdempotentUnlessSplit ==
  \A i \in CalledTwice(HookStrip) :
    ~SplitToken(GivenBefore(i)) => Result(i) = Given(i)

\* the first application deleted tokens, left both halves of a token apart,
\* and the second application found nothing to do
C4_Witness ==
  \E i \in CalledTwice(HookStrip) :
    /\ Cardinality(Tokens(GivenBefore(i))) >= 1
    /\ ~SplitToken(GivenBefore(i))
    /\ Given(i) = ",must"
    /\ Result(i) = Given(i)

(* ------------------------------------------------------------------ *)
(* Version annotations, as the documentation writes them               *)
(* ------------------------------------------------------------------ *)

\* "<sup>", "Until" or "Since", and ": " stand at position a, in any letter case
Opens(s, a) ==
  /\ a + 11 <= Len(s)
  /\ SameIgnoringCase(SubSeq(s, a, a + 4), "<sup>")
  /\ \/ SameIgnoringCase(SubSeq(s, a + 5, a + 9), "Until")
     \/ SameIgnoringCase(SubSeq(s, a + 5, a + 9), "Since")
  /\ SubSeq(s, a + 10, a + 11) = ": "

Closes(s, c) ==
  /\ c + 5 <= Len(s)
  /\ SameIgnoringCase(SubSeq(s, c, c + 5), "</sup>")

\* the first closing tag behind the opening at a, 0 when there is none
FirstClose(s, a) == First({c \in (a + 12)..Len(s) : Closes(s, c)})

Preposition(s, a) == SubSeq(s, a + 5, a + 9)

Version(s, a) == SubSeq(s, a + 12, FirstClose(s, a) - 1)

OneLine(v) == \A k \in 1..Len(v) : CharAt(v, k) # "\n"

\* an annotation starts at a: an opening, a version on one line, the closing tag
AnnotationAt(s, a) ==
  Opens(s, a) /\ FirstClose(s, a) > 0 /\ OneLine(Version(s, a))

\* the same, with line breaks allowed in the version
LooseAnnotationAt(s, a) ==
  Opens(s, a) /\ FirstClose(s, a) > 0

Annotations(s) == {a \in 1..Len(s) : AnnotationAt(s, a)}

LooseAnnotations(s) == {a \in 1..Len(s) : LooseAnnotationAt(s, a)}

\* the last character of the annotation at a
AnnotationEnd(s, a) == FirstClose(s, a) + 5

\* of the annotations starting at starts, the leftmost ones that do not
\* begin inside an earlier one of them, from position from on
RECURSIVE Leftmost(_, _, _)
Leftmost(s, starts, from) ==
  IF starts = {} THEN {}
  ELSE LET a == First(starts)
       IN  IF a < from THEN Leftmost(s, starts \ {a}, from)
           ELSE {a} \cup Leftmost(s, starts \ {a}, AnnotationEnd(s, a) + 1)

Replaced(s) == Leftmost(s, Annotations(s), 1)

UnlinkedBadge(p, v) == "<span class=\"badge\">" \o p \o ": " \o v \o "</span>"

LinkedBadge(p, v) ==
  "<span class=\"badge\">[" \o p \o ": " \o v
    \o "](https://github.com/YaLTeR/niri/releases/tag/v" \o v \o ")</span>"

Badge(p, v) == IF v = "next release" THEN UnlinkedBadge(p, v) ELSE LinkedBadge(p, v)

\* s with a badge in the place of each annotation of as, from position from on
RECURSIVE WithBadges(_, _, _)
WithBadges(s, as, from) ==
  IF as = {} THEN SubSeq(s, from, Len(s))
  ELSE LET a == First(as)
       IN  SubSeq(s, from, a - 1) \o Badge(Preposition(s, a), Version(s, a))
             \o WithBadges(s, as \ {a}, AnnotationEnd(s, a) + 1)

Contains(s, x) ==
  \E q \in 1..(Len(s) - Len(x) + 1) : SubSeq(s, q, q + Len(x) - 1) = x

(* ------------------------------------------------------------------ *)
(* C2                                                                  *)
(* ------------------------------------------------------------------ *)

\* C2: for every match of the badge pattern in a text given to BadgeRenderer,
\* with the fields (Preposition, Version) it captured, the replacement is the
\* unlinked badge exactly when Version is "next release", letter for letter,
\* and the badge linked to .../releases/tag/v{Version} in every other case,
\* Version put in as it is.
C2_BadgeForVersion ==
  \A i \in CallsOf(HookBadge) :
    \A j \in 1..Len(Given(i)) :
      LET match == BadgeMatchAt(Given(i), j)
          p == match.groups[1]
          v == match.groups[2]
      IN  match.ok =>
            /\ v = "next release" => replace(match) = UnlinkedBadge(p, v)
            /\ v # "next release" => replace(match) = LinkedBadge(p, v)

\* one page with the sentinel version and a release number, both rendered
C2_Witness ==
  \E i \in CallsOf(HookBadge) :
    /\ Given(i) = "<SUP>until: next release</SUP><sup>Since: 0.1.0</sup>"
    /\ Result(i) = "<span class=\"badge\">until: next release</span>"
         \o "<span class=\"badge\">[Since: 0.1.0](https://github.com/YaLTeR/niri/releases/tag/v0.1.0)</span>"

\* the sentinel in another letter case is linked like any other version
C2_WitnessOtherCase ==
  \E i \in CallsOf(HookBadge) :
    /\ Given(i) = "<sup>Since: Next Release</sup>"
    /\ Result(i) = "<span class=\"badge\">[Since: Next Release](https://github.com/YaLTeR/niri/releases/tag/vNext Release)</span>"

\* the empty version is linked too
C2_WitnessEmpty ==
  \E i \in CallsOf(HookBadge) :
    /\ Given(i) = "<sup>Since: </sup>"
    /\ Result(i) = "<span class=\"badge\">[Since: ](https://github.com/YaLTeR/niri/releases/tag/v)</span>"

(* ------------------------------------------------------------------ *)
(* C3                                                                  *)
(* ------------------------------------------------------------------ *)

\* where x first occurs in s at or behind position p, 0 when it does not
Find(s, x, p) ==
  First({q \in p..(Len(s) - Len(x) + 1) : SubSeq(s, q, q + Len(x) - 1) = x})

\* the texts between the annotations as of s, from position from on, are found
\* in out from position p on, in their order, each behind a replacement that
\* is not empty, the last one ending out
RECURSIVE KeepsGaps(_, _, _, _, _)
KeepsGaps(out, p, s, as, from) ==
  IF as = {}
  THEN LET gap == SubSeq(s, from, Len(s))
       IN  /\ Len(out) - Len(gap) + 1 >= p
           /\ SubSeq(out, Len(out) - Len(gap) + 1, Len(out)) = gap
  ELSE LET a == First(as)
           gap == SubSeq(s, from, a - 1)
           q == IF from = 1 THEN (IF SubSeq(out, 1, Len(gap)) = gap THEN 1 ELSE 0)
                ELSE Find(out, gap, p)
       IN  /\ q > 0
           /\ KeepsGaps(out, q + Len(gap) + 1, s, as \ {a}, AnnotationEnd(s, a) + 1)

\* C3: BadgeRenderer changes only the text of the matches: the text before,
\* between and behind them is in the output, unchanged and in the same
\* order, and a text without a match is returned as it is.
C3_OnlyMatchesChange ==
  \A i \in CallsOf(HookBadge) :
    /\ Annotations(Given(i)) = {} => Result(i) = Given(i)
    /\ KeepsGaps(Result(i), 1, Given(i), Replaced(Given(i)), 1)

\* the text before and behind an annotation is kept around its badge
C3_Witness ==
  \E i \in CallsOf(HookBadge) :
    /\ Given(i) = "Next Release<sup>Since: 0.1.0</sup>\n"
    /\ Replaced(Given(i)) = {13}
    /\ Result(i) = "Next Release" \o LinkedBadge("Since", "0.1.0") \o "\n"

(* ------------------------------------------------------------------ *)
(* C6                                                                  *)
(* ------------------------------------------------------------------ *)

\* C6: a text with two or more annotations, on one line or on several, comes
\* back with one badge per annotation, in the order of the input, each made
\* of the preposition and the version of its own annotation, the version
\* ending at the first closing tag behind its own opening.
C6_EachAnnotationItsOwnBadge ==
  \A i \in CallsOf(HookBadge) :
    Cardinality(Replaced(Given(i))) >= 2 =>
      Result(i) = WithBadges(Given(i), Replaced(Given(i)), 1)

\* two annotations on one line, each with its own preposition and version
C6_Witness ==
  \E i \in CallsOf(HookBadge) :
    /\ Given(i) = "<sup>Since: 0.1.0</sup><SUP>until: next release</SUP>"
    /\ Replaced(Given(i)) = {1, 24}
    /\ Result(i) = "<span class=\"badge\">[Since: 0.1.0](https://github.com/YaLTeR/niri/releases/tag/v0.1.0)</span>"
         \o "<span class=\"badge\">until: next release</span>"

(* ------------------------------------------------------------------ *)
(* C7                                                                  *)
(* ------------------------------------------------------------------ *)

\* C7 as stated: every occurrence <sup>Since: V</sup> or <sup>Until: V</sup>
\* whose V holds no closing tag is replaced by the badge of V, a V with a
\* line break in it included.
C7_Original ==
  \A i \in CallsOf(HookBadge) :
    \A a \in Leftmost(Given(i), LooseAnnotations(Given(i)), 1) :
      Contains(Result(i), Badge(Preposition(Given(i), a), Version(Given(i), a)))

\* C7, amended: every occurrence <sup>Since: V</sup> or <sup>Until: V</sup>
\* whose V holds neither a closing tag (in any letter case) nor a line break,
\* and which does not begin inside an earlier match, is matched with
\* Version = V and replaced by the badge of V; the empty V is one of them.
C7_EveryOneLineAnnotationReplaced ==
  \A i \in CallsOf(HookBadge) :
    \A a \in Replaced(Given(i)) :
      Contains(Result(i), Badge(Preposition(Given(i), a), Version(Given(i), a)))

\* on the second line of a page, an annotation with the empty version
C7_Witness ==
  \E i \in CallsOf(HookBadge) :
    /\ Given(i) = "\n<sup>Since: </sup>"
    /\ Replaced(Given(i)) = {2}
    /\ Version(Given(i), 2) = ""
    /\ Result(i) = "\n<span class=\"badge\">[Since: ](https://github.com/YaLTeR/niri/releases/tag/v)</span>"

(* ------------------------------------------------------------------ *)
(* C10                                                                 *)
(* ------------------------------------------------------------------ *)

\* the whole text is one annotation
WholeAnnotation(s) == AnnotationAt(s, 1) /\ AnnotationEnd(s, 1) = Len(s)

\* C10: an annotation is matched with its tags and its preposition in any
\* letter case; its badge starts with the preposition as the input spells
\* it; and only the version "next release" in exactly this spelling gets
\* the badge without a link.
C10_CaseOfTagsAndPreposition ==
  \A i \in CallsOf(HookBadge) :
    WholeAnnotation(Given(i)) =>
      LET p == Preposition(Given(i), 1)
          v == Version(Given(i), 1)
          linked == SubSeq(Result(i), 21, 21) = "["
      IN  /\ SubSeq(Result(i), 1, 20) = "<span class=\"badge\">"
          /\ linked <=> v # "next release"
          /\ linked => SubSeq(Result(i), 22, 28 + Len(v)) = p \o ": " \o v
          /\ ~linked => SubSeq(Result(i), 21, 27 + Len(v)) = p \o ": " \o v

\* tags in capitals and the preposition in small letters
C10_Witness ==
  \E i \in CallsOf(HookBadge) :
    /\ Given(i) = "<SUP>until: next release</SUP>"
    /\ Result(i) = "<span class=\"badge\">until: next release</span>"

\* the sentinel in another spelling, matched and linked
C10_WitnessSentinel ==
  \E i \in CallsOf(HookBadge) :
    /\ Given(i) = "<sup>Since: Next Release</sup>"
    /\ WholeAnnotation(Given(i))
    /\ SubSeq(Result(i), 21, 21) = "["

(* ------------------------------------------------------------------ *)
(* C5                                                                  *)
(* ------------------------------------------------------------------ *)

\* a token and an annotation of s share a character
TokenInAnnotation(s) ==
  \E u \in Tokens(s), a \in Annotations(s) :
    u <= AnnotationEnd(s, a) /\ a <= u + 9

\* where in s without its tokens the text goes on behind a deleted token
DeletionPoints(s) ==
  {u - 10 * Cardinality({w \in Tokens(s) : w < u}) : u \in Tokens(s)}

\* an annotation of s without its tokens has a deleted token inside it
AnnotationOverDeletion(s) ==
  \E a \in Annotations(WithoutTokens(s)), d \in DeletionPoints(s) :
    a < d /\ d <= AnnotationEnd(WithoutTokens(s), a)

Apart(s) == ~TokenInAnnotation(s) /\ ~AnnotationOverDeletion(s)

StripThenBadge(d, s) ==
  shortcodes_on_page_markdown(
    remove_must_fail_on_page_markdown(s, d.page, d.config, d.files),
    d.page, d.config, d.files)

BadgeThenStrip(d, s) ==
  remove_must_fail_on_page_markdown(
    shortcodes_on_page_markdown(s, d.page, d.config, d.files),
    d.page, d.config, d.files)

\* C5 as stated: on a text with a token and an annotation in it, wherever
\* they stand, the two hooks give the same text in either order.
C5_Original ==
  /\ \A i \in CalledInTurn(HookStrip, HookBadge) :
       Tokens(GivenBefore(i)) # {} /\ Annotations(GivenBefore(i)) # {}
         => Result(i) = BadgeThenStrip(docs[i], GivenBefore(i))
  /\ \A i \in CalledInTurn(HookBadge, HookStrip) :
       Tokens(GivenBefore(i)) # {} /\ Annotations(GivenBefore(i)) # {}
         => Result(i) = StripThenBadge(docs[i], GivenBefore(i))

\* C5, amended: the two hooks give the same text in either order on every
\* text in which no token shares a character with an annotation and in
\* which, with the tokens deleted, no annotation reaches across a place
\* where a token stood.
C5_CommuteWhenApart ==
  /\ \A i \in CalledInTurn(HookStrip, HookBadge) :
       Apart(GivenBefore(i)) => Result(i) = BadgeThenStrip(docs[i], GivenBefore(i))
  /\ \A i \in CalledInTurn(HookBadge, HookStrip) :
       Apart(GivenBefore(i)) => Result(i) = StripThenBadge(docs[i], GivenBefore(i))

\* a token in front of an annotation: stripped, then rendered
C5_Witness ==
  \E i \in CalledInTurn(HookStrip, HookBadge) :
    /\ GivenBefore(i) = ",must-fail<sup>Since: next release</sup>"
    /\ Tokens(GivenBefore(i)) # {}
    /\ Annotations(GivenBefore(i)) # {}
    /\ Apart(GivenBefore(i))
    /\ Result(i) = "<span class=\"badge\">Since: next release</span>"
    /\ Result(i) = BadgeThenStrip(docs[i], GivenBefore(i))

(* ------------------------------------------------------------------ *)
(* C9                                                                  *)
(* ------------------------------------------------------------------ *)

\* C9: two calls of the same hook with the same text return the same text,
\* whatever page, config and files each was passed and on whichever page
\* and in whichever order the calls were made.
C9_OnlyMarkdownCounts ==
  \A h \in {HookStrip, HookBadge} :
    \A i \in CallsOf(h), j \in CallsOf(h) :
      Given(i) = Given(j) => Result(i) = Result(j)

\* two pages passed different page, config and files, the same hook called
\* with the same text on both, and the text changed by it
C9_Witness ==
  \E h \in {HookStrip, HookBadge} :
    \E i \in CallsOf(h), j \in CallsOf(h) :
      /\ i # j
      /\ docs[i].page # docs[j].page
      /\ docs[i].config # docs[j].config
      /\ docs[i].files # docs[j].files
      /\ Len(docs[i].hooks) # Len(docs[j].hooks)
      /\ Given(i) = Given(j)
      /\ Result(i) # Given(i)
      /\ Result(i) = Result(j)

====
